---- MODULE Spec2Model ----
(***************************************************************************)
(* Packet-header overlays of framework/src/packets: the Ethernet and Udp   *)
(* overlays (ethernet.rs, udp.rs) over one mutable buffer (MBuf), the      *)
(* envelope chain RawPacket -> Ethernet -> IpPacket -> Udp built by        *)
(* Packet::parse, and the typed accessors with their byte-order            *)
(* conversions.                                                            *)
(*                                                                         *)
(* Addresses are byte indices into the buffer, counted from 0; the buffer  *)
(* is the sequence data, so the byte at address a is data[a + 1].          *)
(***************************************************************************)
EXTENDS Integers, Naturals, Sequences, FiniteSets, TLC

VARIABLES
    host,     \* byte order of the machine the build runs on: "le" or "be"
    data,     \* the bytes of the MBuf, a sequence over 0..255
    packet,   \* the outermost overlay the caller holds (it owns its envelope)
    nsets,    \* number of setter calls made so far
    op        \* the last operation: its name, argument and result

vars == <<host, data, packet, nsets, op>>

(***************************************************************************)
(* Bounds of the model.                                                    *)
(***************************************************************************)
\* longest buffer handed to RawPacket::from_bytes
MaxLen == 62
\* most setter calls in one run
MaxSets == 2

(***************************************************************************)
(* Integer helpers: u8 and u16 arithmetic.                                 *)
(***************************************************************************)
Max(a, b) == IF a >= b THEN a ELSE b

\* u16::swap_bytes
swap_bytes(x) == (x % 256) * 256 + (x \div 256)

\* u16::to_be: identity on a big-endian host, a byte swap on a little-endian one
to_be(h, x) == IF h = "be" THEN x ELSE swap_bytes(x)

\* u16::from_be: the same conversion in the other direction
from_be(h, x) == IF h = "be" THEN x ELSE swap_bytes(x)

\* the two bytes memory holds for the u16 x of the host, lowest address first
StoreBytes(h, x) ==
    IF h = "be" THEN <<x \div 256, x % 256>> ELSE <<x % 256, x \div 256>>

\* the u16 the host loads from the two bytes b, lowest address first
LoadBytes(h, b) ==
    IF h = "be" THEN b[1] * 256 + b[2] ELSE b[2] * 256 + b[1]

(***************************************************************************)
(* Header layouts: the struct declarations and their representation.       *)
(***************************************************************************)
\* struct MacAddr(pub [u8; 6]), repr(C, packed)
MacAddrType == [size |-> 6, align |-> 1]

\* u16
U16Type == [size |-> 2, align |-> 2]

\* struct EthernetHeader, repr(C, packed)
EthernetHeader ==
    [packed |-> TRUE,
     fields |-> << [name |-> "dst", type |-> MacAddrType],
                   [name |-> "src", type |-> MacAddrType],
                   [name |-> "ether_type", type |-> U16Type] >>]

\* struct UdpHeader, repr(C)
UdpHeader ==
    [packed |-> FALSE,
     fields |-> << [name |-> "src_port", type |-> U16Type],
                   [name |-> "dst_port", type |-> U16Type],
                   [name |-> "length", type |-> U16Type],
                   [name |-> "checksum", type |-> U16Type] >>]

\* alignment a field gets under the struct's representation
FieldAlign(H, i) == IF H.packed THEN 1 ELSE H.fields[i].type.align

AlignUp(n, a) == ((n + a - 1) \div a) * a

\* offset of the i-th field of H: each field follows the previous one at the
\* next multiple of its alignment
RECURSIVE FieldStart(_, _)
FieldStart(H, i) ==
    IF i = 1 THEN 0
    ELSE AlignUp(FieldStart(H, i - 1) + H.fields[i - 1].type.size, FieldAlign(H, i))

RECURSIVE StructAlign(_, _)
StructAlign(H, i) ==
    IF i = 0 THEN 1 ELSE Max(FieldAlign(H, i), StructAlign(H, i - 1))

\* mem::size_of of the struct: the end of the last field, rounded up to the
\* struct's alignment
SizeOf(H) ==
    LET n == Len(H.fields)
    IN  AlignUp(FieldStart(H, n) + H.fields[n].type.size, StructAlign(H, n))

FieldIndex(H, name) == CHOOSE i \in 1..Len(H.fields) : H.fields[i].name = name

\* offset of the field called name inside the header
FieldOffset(H, name) == FieldStart(H, FieldIndex(H, name))

FieldSize(H, name) == H.fields[FieldIndex(H, name)].type.size

(***************************************************************************)
(* The buffer and the values the operations are called with.               *)
(***************************************************************************)
\* tests::UDP_PACKET
UDP_PACKET ==
    << 0, 0, 0, 0, 0, 1,
       0, 0, 0, 0, 0, 2,
       8, 0,
       69, 0,
       0, 38,
       171, 73, 64, 0,
       255, 17, 247, 0,
       139, 133, 217, 110,
       139, 133, 233, 2,
       153, 208, 4, 63,
       0, 18, 114, 40,
       104, 101, 108, 108, 111, 104, 101, 108, 108, 111 >>

\* a buffer of n bytes: UDP_PACKET cut to n bytes, or continued by repeating it
Buffer(n) == [i \in 1..n |-> UDP_PACKET[((i - 1) % Len(UDP_PACKET)) + 1]]

\* arguments of the u16 setters: 0x0000 and 0x1234
U16Vals == {0, 4660}

\* argument of the address setters: 12:34:56:ab:cd:ef
MacVals == { <<18, 52, 86, 171, 205, 239>> }

\* codes given to EtherType::new: 0, 0x0800, 0x86dd, 0xabcd
EtherCodes == {0, 2048, 34525, 43981}

\* the one MBuf of a run
MBufPtr == "mbuf"

(***************************************************************************)
(* Memory behind the header pointers.                                      *)
(***************************************************************************)
\* the n bytes at address a
ReadBytes(d, a, n) == [i \in 1..n |-> d[a + i]]

\* d with the bytes b written at address a
WriteBytes(d, a, b) ==
    [i \in 1..Len(d) |-> IF i > a /\ i <= a + Len(b) THEN b[i - a] ELSE d[i]]

(***************************************************************************)
(* Overlays.  An overlay is a record of the struct's four fields; the      *)
(* envelope is held by value.                                              *)
(***************************************************************************)
Ok(v) == [ok |-> TRUE, value |-> v]

Err == [ok |-> FALSE]

\* Packet::envelope, Packet::mbuf, Packet::offset, Packet::header
envelope(p) == p.envelope

mbuf(p) == p.mbuf

offset(p) == p.offset

header(p) == p.header

\* Ethernet::from_packet
Ethernet_from_packet(env, mb, off, hdr) ==
    Ok([kind |-> "Ethernet", envelope |-> env, mbuf |-> mb, offset |-> off,
        header |-> hdr])

\* Udp::from_packet that refuses every header
Udp_from_packet_Rejects(env, mb, off, hdr) == Err

\* Udp::from_packet that records where the payload starts as the offset
Udp_from_packet_PayloadOffset(env, mb, off, hdr) ==
    Ok([kind |-> "Udp", envelope |-> env, mbuf |-> mb,
        offset |-> off + SizeOf(UdpHeader), header |-> hdr])

\* Udp::from_packet
Udp_from_packet(env, mb, off, hdr) ==
    Ok([kind |-> "Udp", envelope |-> env, mbuf |-> mb, offset |-> off,
        header |-> hdr])

\* Ethernet::header_len that takes the size of the wrong header type
Ethernet_header_len_WrongType(p) == SizeOf(UdpHeader)

\* Ethernet::header_len
Ethernet_header_len(p) == SizeOf(EthernetHeader)

\* Udp::header_len that takes the size of the wrong header type
Udp_header_len_WrongType(p) == SizeOf(EthernetHeader)

\* Udp::header_len
Udp_header_len(p) == SizeOf(UdpHeader)

(***************************************************************************)
(* Ethernet accessors.                                                     *)
(***************************************************************************)
src(h, d, p) ==
    ReadBytes(d, header(p) + FieldOffset(EthernetHeader, "src"),
              FieldSize(EthernetHeader, "src"))

set_src(h, d, p, v) ==
    WriteBytes(d, header(p) + FieldOffset(EthernetHeader, "src"), v)

\* dst that reads the src field
dst_ReadsSrc(h, d, p) ==
    ReadBytes(d, header(p) + FieldOffset(EthernetHeader, "src"),
              FieldSize(EthernetHeader, "src"))

dst(h, d, p) ==
    ReadBytes(d, header(p) + FieldOffset(EthernetHeader, "dst"),
              FieldSize(EthernetHeader, "dst"))

set_dst(h, d, p, v) ==
    WriteBytes(d, header(p) + FieldOffset(EthernetHeader, "dst"), v)

ether_type(h, d, p) ==
    from_be(h, LoadBytes(h,
        ReadBytes(d, header(p) + FieldOffset(EthernetHeader, "ether_type"), 2)))

set_ether_type(h, d, p, v) ==
    WriteBytes(d, header(p) + FieldOffset(EthernetHeader, "ether_type"),
               StoreBytes(h, to_be(h, v)))

(***************************************************************************)
(* Udp accessors.                                                          *)
(***************************************************************************)
src_port(h, d, p) ==
    from_be(h, LoadBytes(h,
        ReadBytes(d, header(p) + FieldOffset(UdpHeader, "src_port"), 2)))

\* set_src_port that assigns the dst_port field
set_src_port_WritesDstPort(h, d, p, v) ==
    WriteBytes(d, header(p) + FieldOffset(UdpHeader, "dst_port"),
               StoreBytes(h, to_be(h, v)))

set_src_port(h, d, p, v) ==
    WriteBytes(d, header(p) + FieldOffset(UdpHeader, "src_port"),
               StoreBytes(h, to_be(h, v)))

dst_port(h, d, p) ==
    from_be(h, LoadBytes(h,
        ReadBytes(d, header(p) + FieldOffset(UdpHeader, "dst_port"), 2)))

set_dst_port(h, d, p, v) ==
    WriteBytes(d, header(p) + FieldOffset(UdpHeader, "dst_port"),
               StoreBytes(h, to_be(h, v)))

length(h, d, p) ==
    from_be(h, LoadBytes(h,
        ReadBytes(d, header(p) + FieldOffset(UdpHeader, "length"), 2)))

\* set_length that stores the value as a u32
set_length_U32(h, d, p, v) ==
    WriteBytes(d, header(p) + FieldOffset(UdpHeader, "length"),
               IF h = "be" THEN <<0, 0>> \o StoreBytes(h, to_be(h, v))
               ELSE StoreBytes(h, to_be(h, v)) \o <<0, 0>>)

set_length(h, d, p, v) ==
    WriteBytes(d, header(p) + FieldOffset(UdpHeader, "length"),
               StoreBytes(h, to_be(h, v)))

checksum(h, d, p) ==
    from_be(h, LoadBytes(h,
        ReadBytes(d, header(p) + FieldOffset(UdpHeader, "checksum"), 2)))

\* set_checksum that stores the value without u16::to_be
set_checksum_NoToBe(h, d, p, v) ==
    WriteBytes(d, header(p) + FieldOffset(UdpHeader, "checksum"), StoreBytes(h, v))

set_checksum(h, d, p, v) ==
    WriteBytes(d, header(p) + FieldOffset(UdpHeader, "checksum"),
               StoreBytes(h, to_be(h, v)))

(***************************************************************************)
(* Display for EtherType.                                                  *)
(***************************************************************************)
HexDigits == "0123456789abcdef"

\* the digit d of 0..15 in lowercase hexadecimal
HexDigit(d) == SubSeq(HexDigits, d + 1, d + 1)

\* {:x}: hexadecimal without leading zeros
RECURSIVE LowerHex(_)
LowerHex(n) ==
    IF n < 16 THEN HexDigit(n) ELSE LowerHex(n \div 16) \o HexDigit(n % 16)

\* pads s on the left with zeros to the width w
RECURSIVE ZeroPad(_, _)
ZeroPad(s, w) == IF Len(s) >= w THEN s ELSE ZeroPad("0" \o s, w)

\* {:02x}
Hex02(b) == ZeroPad(LowerHex(b), 2)

\* impl fmt::Display for MacAddr
MacAddr_fmt(m) ==
    Hex02(m[1]) \o ":" \o Hex02(m[2]) \o ":" \o Hex02(m[3]) \o ":" \o
    Hex02(m[4]) \o ":" \o Hex02(m[5]) \o ":" \o Hex02(m[6])

\* EtherTypes::Ipv4 and EtherTypes::Ipv6
EtherTypes_Ipv4 == 2048

EtherTypes_Ipv6 == 34525

\* Display for EtherType that formats with {:x} in place of {:04x}
EtherType_fmt_NoPadding(c) ==
    IF c = EtherTypes_Ipv4 THEN "IPv4"
    ELSE IF c = EtherTypes_Ipv6 THEN "IPv6"
    ELSE "0x" \o LowerHex(c)

\* impl fmt::Display for EtherType
EtherType_fmt(c) ==
    IF c = EtherTypes_Ipv4 THEN "IPv4"
    ELSE IF c = EtherTypes_Ipv6 THEN "IPv6"
    ELSE "0x" \o ZeroPad(LowerHex(c), 4)

(***************************************************************************)
(* The rest of the chain: the raw packet, the network layer between        *)
(* Ethernet and Udp, and Packet::parse, which builds the next overlay.     *)
(***************************************************************************)
\* RawPacket::from_bytes: the root of the chain, at offset 0 with no header
RawPacket == [kind |-> "RawPacket", mbuf |-> MBufPtr, offset |-> 0, header |-> 0]

RawPacket_header_len == 0

\* what is left after a failed parse: parse takes its envelope by value
NoPacket == [kind |-> "None"]

\* fixed header sizes of the two network layers
Ipv4HeaderSize == 20

Ipv6HeaderSize == 40

\* the types satisfying IpPacket
IpKinds == {"Ipv4", "Ipv6"}

Ip_header_len(p) == IF p.kind = "Ipv4" THEN Ipv4HeaderSize ELSE Ipv6HeaderSize

Ip_from_packet(k, env, mb, off, hdr) ==
    Ok([kind |-> k, envelope |-> env, mbuf |-> mb, offset |-> off, header |-> hdr])

\* Packet::header_len of any layer
header_len(p) ==
    CASE p.kind = "RawPacket" -> RawPacket_header_len
      [] p.kind = "Ethernet" -> Ethernet_header_len(p)
      [] p.kind = "Udp" -> Udp_header_len(p)
      [] p.kind \in IpKinds -> Ip_header_len(p)

\* Fixed::size of the header type of the overlay type T
HeaderSize(T) ==
    CASE T = "Ethernet" -> SizeOf(EthernetHeader)
      [] T = "Udp" -> SizeOf(UdpHeader)
      [] T = "Ipv4" -> Ipv4HeaderSize
      [] T = "Ipv6" -> Ipv6HeaderSize

\* type Envelope = RawPacket of impl Packet for Ethernet
Ethernet_Envelope == {"RawPacket"}

\* Udp<E> without the IpPacket bound on E: any overlay may be the envelope
Udp_Envelope_Unbounded == IpKinds \cup {"Ethernet"}

\* type Envelope = E of impl<E: IpPacket> Packet for Udp<E>
Udp_Envelope == IpKinds

\* the envelope of a network layer is the Ethernet overlay
Ip_Envelope == {"Ethernet"}

\* type Envelope of the overlay type T: the kinds T can be parsed from
EnvelopeKinds(T) ==
    CASE T = "Ethernet" -> Ethernet_Envelope
      [] T = "Udp" -> Udp_Envelope
      [] T \in IpKinds -> Ip_Envelope

\* T::from_packet
from_packet(T, env, mb, off, hdr) ==
    CASE T = "Ethernet" -> Ethernet_from_packet(env, mb, off, hdr)
      [] T = "Udp" -> Udp_from_packet(env, mb, off, hdr)
      [] T \in IpKinds -> Ip_from_packet(T, env, mb, off, hdr)

\* Packet::parse::<T>: the next header starts where this one ends; it must fit
\* in the buffer, and its location is the buffer's base plus the offset
parse(d, p, T) ==
    LET off == offset(p) + header_len(p)
    IN  IF off + HeaderSize(T) > Len(d) THEN Err
        ELSE from_packet(T, p, mbuf(p), off, off)

\* the layers of the chain held by p, outermost first
RECURSIVE Layers(_)
Layers(p) ==
    IF p.kind = "None" THEN <<>>
    ELSE IF p.kind = "RawPacket" THEN <<p>>
    ELSE <<p>> \o Layers(envelope(p))

\* the layer of kind k reached from p through envelope(), NoPacket if none
RECURSIVE LayerOf(_, _)
LayerOf(p, k) ==
    IF p.kind = k THEN p
    ELSE IF p.kind \in {"None", "RawPacket"} THEN NoPacket
    ELSE LayerOf(envelope(p), k)

HasLayer(p, k) == LayerOf(p, k).kind = k

(***************************************************************************)
(* State machine.                                                          *)
(***************************************************************************)
\* boundary lengths: every length at which some header of some chain just fits
Boundaries ==
    {SizeOf(EthernetHeader)}
    \cup {SizeOf(EthernetHeader) + ip : ip \in {Ipv4HeaderSize, Ipv6HeaderSize}}
    \cup {SizeOf(EthernetHeader) + ip + SizeOf(UdpHeader) :
              ip \in {Ipv4HeaderSize, Ipv6HeaderSize}}

\* buffer lengths a run starts from: empty, UDP_PACKET's, the longest, and the
\* two lengths at each boundary
BufLens ==
    {n \in 0..MaxLen :
        n \in {0, Len(UDP_PACKET), MaxLen} \/ \E b \in Boundaries : n \in {b - 1, b}}

Init ==
    /\ host \in {"le", "be"}
    /\ data \in {Buffer(n) : n \in BufLens}
    /\ packet = RawPacket
    /\ nsets = 0
    /\ op = [name |-> "from_bytes"]

\* packet.parse::<T>()
Parse(T) ==
    /\ packet.kind \in EnvelopeKinds(T)
    /\ LET r == parse(data, packet, T)
       IN  /\ packet' = IF r.ok THEN r.value ELSE NoPacket
           /\ op' = [name |-> "parse", kind |-> T,
                     offset |-> offset(packet) + header_len(packet),
                     ok |-> r.ok]
    /\ UNCHANGED <<host, data, nsets>>

\* a setter of the outermost overlay, which must be of kind k
Set(k, name, newdata, v) ==
    /\ packet.kind = k
    /\ nsets < MaxSets
    /\ data' = newdata
    /\ nsets' = nsets + 1
    /\ op' = [name |-> name, arg |-> v]
    /\ UNCHANGED <<host, packet>>

\* a getter of the layer of kind k, reached through envelope()
Get(k, name, value) ==
    /\ HasLayer(packet, k)
    /\ op' = [name |-> name, ret |-> value]
    /\ UNCHANGED <<host, data, packet, nsets>>

SetSrc == \E v \in MacVals : Set("Ethernet", "set_src", set_src(host, data, packet, v), v)

SetDst == \E v \in MacVals : Set("Ethernet", "set_dst", set_dst(host, data, packet, v), v)

SetEtherType ==
    \E v \in EtherCodes :
        Set("Ethernet", "set_ether_type", set_ether_type(host, data, packet, v), v)

SetSrcPort ==
    \E v \in U16Vals : Set("Udp", "set_src_port", set_src_port(host, data, packet, v), v)

SetDstPort ==
    \E v \in U16Vals : Set("Udp", "set_dst_port", set_dst_port(host, data, packet, v), v)

SetLength ==
    \E v \in U16Vals : Set("Udp", "set_length", set_length(host, data, packet, v), v)

SetChecksum ==
    \E v \in U16Vals : Set("Udp", "set_checksum", set_checksum(host, data, packet, v), v)

GetSrc == Get("Ethernet", "src", src(host, data, LayerOf(packet, "Ethernet")))

GetDst == Get("Ethernet", "dst", dst(host, data, LayerOf(packet, "Ethernet")))

GetEtherType ==
    Get("Ethernet", "ether_type", ether_type(host, data, LayerOf(packet, "Ethernet")))

GetSrcPort == Get("Udp", "src_port", src_port(host, data, LayerOf(packet, "Udp")))

GetDstPort == Get("Udp", "dst_port", dst_port(host, data, LayerOf(packet, "Udp")))

GetLength == Get("Udp", "length", length(host, data, LayerOf(packet, "Udp")))

GetChecksum == Get("Udp", "checksum", checksum(host, data, LayerOf(packet, "Udp")))

\* EtherType::new(c).to_string()
EtherTypeToString ==
    \E c \in EtherCodes :
        /\ op' = [name |-> "to_string", arg |-> c, ret |-> EtherType_fmt(c)]
        /\ UNCHANGED <<host, data, packet, nsets>>

\* ethernet.header_len() and udp.header_len()
GetHeaderLen ==
    \E k \in {"Ethernet", "Udp"} :
        /\ HasLayer(packet, k)
        /\ op' = [name |-> "header_len", kind |-> k,
                  ret |-> header_len(LayerOf(packet, k))]
        /\ UNCHANGED <<host, data, packet, nsets>>

Next ==
    \/ \E T \in {"Ethernet", "Ipv4", "Ipv6", "Udp"} : Parse(T)
    \/ SetSrc \/ SetDst \/ SetEtherType
    \/ SetSrcPort \/ SetDstPort \/ SetLength \/ SetChecksum
    \/ GetSrc \/ GetDst \/ GetEtherType
    \/ GetSrcPort \/ GetDstPort \/ GetLength \/ GetChecksum
    \/ EtherTypeToString
    \/ GetHeaderLen

Spec == Init /\ [][Next]_vars

(***************************************************************************)
(* Properties.                                                             *)
(***************************************************************************)
\* the overlays of the chain: every layer but the raw packet
Overlays(p) == {i \in 1..Len(Layers(p)) : Layers(p)[i].kind # "RawPacket"}

\* the wire position and width of each field inside its header, as the wire
\* formats give them
WireFields ==
    [dst |-> [at |-> 0, width |-> 6, kind |-> "Ethernet"],
     src |-> [at |-> 6, width |-> 6, kind |-> "Ethernet"],
     ether_type |-> [at |-> 12, width |-> 2, kind |-> "Ethernet"],
     src_port |-> [at |-> 0, width |-> 2, kind |-> "Udp"],
     dst_port |-> [at |-> 2, width |-> 2, kind |-> "Udp"],
     length |-> [at |-> 4, width |-> 2, kind |-> "Udp"],
     checksum |-> [at |-> 6, width |-> 2, kind |-> "Udp"]]

\* the field a setter writes
SetterField ==
    [set_dst |-> "dst", set_src |-> "src", set_ether_type |-> "ether_type",
     set_src_port |-> "src_port", set_dst_port |-> "dst_port",
     set_length |-> "length", set_checksum |-> "checksum"]

Setters == DOMAIN SetterField

U16Setters == Setters \ {"set_dst", "set_src"}

Getters == DOMAIN WireFields

\* the big-endian value of the two bytes at address a
BigEndianAt(d, a) == d[a + 1] * 256 + d[a + 2]

C3_RoundTrip ==
    op.name \in Setters =>
        CASE op.name = "set_src" -> src(host, data, packet) = op.arg
          [] op.name = "set_dst" -> dst(host, data, packet) = op.arg
          [] op.name = "set_ether_type" -> ether_type(host, data, packet) = op.arg
          [] op.name = "set_src_port" -> src_port(host, data, packet) = op.arg
          [] op.name = "set_dst_port" -> dst_port(host, data, packet) = op.arg
          [] op.name = "set_length" -> length(host, data, packet) = op.arg
          [] op.name = "set_checksum" -> checksum(host, data, packet) = op.arg

C3_Witness ==
    /\ op.name = "set_dst_port" /\ op.arg = 4660
    /\ host = "le"
    /\ nsets = 2
    /\ dst_port(host, data, packet) = 4660

\* C4: after a 16-bit setter was called with v, the two buffer bytes at the
\* field's wire position are <<v div 256, v mod 256>>, on either host.
C4_BigEndianStore ==
    op.name \in U16Setters =>
        LET a == header(packet) + WireFields[SetterField[op.name]].at
        IN  <<data[a + 1], data[a + 2]>> = <<op.arg \div 256, op.arg % 256>>

C4_Witness ==
    /\ op.name = "set_checksum" /\ op.arg = 4660
    /\ host = "le"
    /\ <<data[header(packet) + 7], data[header(packet) + 8]>> = <<18, 52>>

\* C5: each getter returns what the wire layout puts at its position: the
\* addresses are the six bytes at o and o + 6, the 16-bit fields the big-endian
\* values at their positions; on UDP_PACKET parsed as Ethernet, Ipv4, Udp the
\* getters return the values of the tests.
C5_DecodeWireLayout ==
    /\ op.name \in Getters =>
           LET f == WireFields[op.name]
               o == offset(LayerOf(packet, f.kind))
           IN  IF f.width = 2
               THEN op.ret = BigEndianAt(data, o + f.at)
               ELSE op.ret = [i \in 1..6 |-> data[o + f.at + i]]
    /\ data = UDP_PACKET =>
           /\ op.name = "dst" => MacAddr_fmt(op.ret) = "00:00:00:00:00:01"
           /\ op.name = "src" => MacAddr_fmt(op.ret) = "00:00:00:00:00:02"
           /\ op.name = "ether_type" => op.ret = EtherTypes_Ipv4
           /\ HasLayer(packet, "Ipv4") =>
                  /\ op.name = "src_port" => op.ret = 39376
                  /\ op.name = "dst_port" => op.ret = 1087
                  /\ op.name = "length" => op.ret = 18
                  /\ op.name = "checksum" => op.ret = 29224

C5_Witness ==
    /\ data = UDP_PACKET
    /\ packet.kind = "Udp" /\ HasLayer(packet, "Ipv4") /\ HasLayer(packet, "Ethernet")
    /\ op.name = "checksum" /\ op.ret = 29224

\* C6: each overlay starts where its envelope's header ends; Ethernet starts at
\* 0 and the network layer at 14; the layers' byte ranges follow one another
\* without gap or overlap.
C6_Chaining ==
    LET L == Layers(packet)
    IN  /\ \A i \in Overlays(packet) :
               /\ offset(L[i]) = offset(envelope(L[i])) + header_len(envelope(L[i]))
               /\ L[i].kind = "Ethernet" => offset(L[i]) = 0
               /\ L[i].kind \in IpKinds => offset(L[i]) = 14
               /\ L[i].kind = "Udp" =>
                      offset(L[i]) = 14 + header_len(envelope(L[i]))
        /\ \A i, j \in Overlays(packet) :
               i < j => offset(L[j]) + header_len(L[j]) <= offset(L[i])
        /\ \A i \in Overlays(packet) :
               i + 1 \in Overlays(packet) =>
                   offset(L[i + 1]) + header_len(L[i + 1]) = offset(L[i])

C6_Witness ==
    /\ packet.kind = "Udp"
    /\ envelope(packet).kind = "Ipv6"
    /\ offset(packet) = 54
    /\ offset(envelope(packet)) = 14
    /\ offset(envelope(envelope(packet))) = 0

\* C7: the header sizes are the sums of the field widths, 14 and 8, and
\* header_len() returns them for every overlay in every state.
C7_HeaderSize ==
    /\ SizeOf(EthernetHeader) = 6 + 6 + 2
    /\ SizeOf(UdpHeader) = 2 + 2 + 2 + 2
    /\ \A i \in Overlays(packet) :
           LET p == Layers(packet)[i]
           IN  /\ p.kind = "Ethernet" => header_len(p) = 14
               /\ p.kind = "Udp" => header_len(p) = 8
    /\ op.name = "header_len" => op.ret = IF op.kind = "Ethernet" THEN 14 ELSE 8

C7_Witness ==
    /\ op.name = "header_len" /\ op.kind = "Udp" /\ op.ret = 8
    /\ nsets > 0
    /\ data # Buffer(Len(data))

\* the value of a string of hexadecimal digits
HexValueOf(ch) == CHOOSE d \in 0..15 : HexDigit(d) = ch

RECURSIVE HexValue(_)
HexValue(t) ==
    IF Len(t) = 0 THEN 0
    ELSE 16 * HexValue(SubSeq(t, 1, Len(t) - 1)) + HexValueOf(SubSeq(t, Len(t), Len(t)))

IsLowerHex(t) ==
    \A i \in 1..Len(t) : \E d \in 0..15 : HexDigit(d) = SubSeq(t, i, i)

\* C8: every code is accepted by set_ether_type and read back, and the text of
\* EtherType(c) is "IPv4" for 0x0800, "IPv6" for 0x86DD and otherwise "0x" and
\* the four lowercase hexadecimal digits of c.
C8_EtherTypeTotal ==
    /\ op.name = "set_ether_type" =>
           /\ packet.kind = "Ethernet"
           /\ ether_type(host, data, packet) = op.arg
    /\ op.name = "ether_type" => op.ret \in 0..65535
    /\ op.name = "to_string" =>
           CASE op.arg = 2048 -> op.ret = "IPv4"
             [] op.arg = 34525 -> op.ret = "IPv6"
             [] OTHER ->
                 /\ Len(op.ret) = 6
                 /\ SubSeq(op.ret, 1, 2) = "0x"
                 /\ IsLowerHex(SubSeq(op.ret, 3, 6))
                 /\ HexValue(SubSeq(op.ret, 3, 6)) = op.arg
                 /\ op.arg = 0 => op.ret = "0x0000"

C8_Witness ==
    op.name = "to_string" /\ op.arg = 43981 /\ op.ret = "0xabcd"

\* the position of a kind in the chain
Rank(k) ==
    CASE k = "RawPacket" -> 0
      [] k = "Ethernet" -> 1
      [] k \in IpKinds -> 2
      [] k = "Udp" -> 3

\* the chain behind p ends at the raw packet and holds one layer per rank
IsChain(p) ==
    LET L == Layers(p)
    IN  \A i \in 1..Len(L) : Rank(L[i].kind) = Len(L) - i

\* C9: the held overlay changes only by a parse; a new overlay takes the
\* overlay that existed before as its envelope, Ethernet from the raw packet
\* and Udp from a network layer; the envelopes form a chain ending at the raw
\* packet.
C9_Ordering ==
    [][ /\ packet' # packet => op'.name = "parse"
        /\ (packet' # packet /\ packet' # NoPacket) =>
               /\ envelope(packet') = packet
               /\ packet'.kind = "Ethernet" => packet.kind = "RawPacket"
               /\ packet'.kind = "Udp" => packet.kind \in IpKinds
               /\ Len(Layers(packet')) = Len(Layers(packet)) + 1
        /\ IsChain(packet) /\ IsChain(packet') ]_vars

C9_Witness ==
    /\ packet.kind = "Udp"
    /\ envelope(packet).kind = "Ipv4"
    /\ envelope(envelope(packet)).kind = "Ethernet"
    /\ envelope(envelope(envelope(packet))).kind = "RawPacket"
    /\ op.name = "parse"

\* the values every getter of every layer of p reads from d
AllFields(h, d, p) ==
    [f \in Getters |->
        IF ~HasLayer(p, WireFields[f].kind) THEN <<>>
        ELSE LET q == LayerOf(p, WireFields[f].kind)
             IN  CASE f = "dst" -> dst(h, d, q)
                   [] f = "src" -> src(h, d, q)
                   [] f = "ether_type" -> <<ether_type(h, d, q)>>
                   [] f = "src_port" -> <<src_port(h, d, q)>>
                   [] f = "dst_port" -> <<dst_port(h, d, q)>>
                   [] f = "length" -> <<length(h, d, q)>>
                   [] f = "checksum" -> <<checksum(h, d, q)>>]

\* C10: a setter changes only the bytes of its own field; every other byte,
\* every other field of every layer, the buffer's length and the overlay are
\* as before; every other operation leaves the buffer as it is.
C10_Frame ==
    [][ IF nsets' # nsets
        THEN LET f == SetterField[op'.name]
                 a == header(packet) + WireFields[f].at
             IN  /\ op'.name \in Setters
                 /\ packet.kind = WireFields[f].kind
                 /\ Len(data') = Len(data)
                 /\ \A i \in 1..Len(data) :
                        (i <= a \/ i > a + WireFields[f].width) => data'[i] = data[i]
                 /\ \A g \in Getters \ {f} :
                        AllFields(host', data', packet')[g] = AllFields(host, data, packet)[g]
                 /\ packet' = packet
        ELSE data' = data ]_vars

C10_Witness ==
    /\ op.name = "set_length" /\ op.arg = 4660
    /\ packet.kind = "Udp"
    /\ Len(data) > offset(packet) + header_len(packet)
    /\ nsets = 1

====
